---- MODULE Spec2Model ----
(***************************************************************************)
(* Model of crawl_openclaw_docs.py: the URL normalizer, the domain filter  *)
(* and the breadth-first crawl loop with its output writer.                *)
(*                                                                         *)
(* Text is a sequence of tokens.  A token is one character ("/", "?", "#", *)
(* ";", ":", " ") or an unbroken run of lower-case letters ("https", "d",  *)
(* "a", ...): the Python string is the concatenation of the tokens.  No    *)
(* operation of the program cuts inside a run of letters, the alphabet has *)
(* no ".", so no dot segment arises, and no upper-case letter, so lower()  *)
(* changes nothing.                                                        *)
(***************************************************************************)
EXTENDS Integers, Sequences, FiniteSets, TLC

VARIABLES
    pc,              \* position of crawl(): "init", "loop", "fetch", "done", "failed"
    start_url,       \* the start_url argument of crawl()
    root_netloc,     \* crawl: root_netloc
    queue,           \* crawl: queue (deque of URL strings)
    visited,         \* crawl: visited (set of URL strings)
    pages_written,   \* crawl: pages_written
    words_processed, \* crawl: words_processed
    url,             \* crawl: url, the entry being processed
    out_state,       \* the output file handle: "unopened", "open", "closed"
    out_buffer,      \* text written to the stream and not yet flushed
    out_file,        \* content of the output file on disk (a sequence of records)
    stderr_log,      \* the "[warn] Failed <url>" lines printed, as the URLs they name
    stdout_log,      \* the "[ok] ..." and "Done." lines printed
    requests_log,    \* every session.get issued, in order, with its outcome
    link_dist,       \* every URL the hyperlinks of the fetched pages lead to, with the
                     \* length of the shortest chain of hyperlinks from the start URL
    enqueued,        \* every URL ever appended to queue, in order
    off_domain,      \* every URL a hyperlink of a fetched page points to on another host
    nstage,          \* normalizer harness: 0 = inputs drawn, 1 = applied, 2 = re-applied
    nbase,           \* normalizer harness: base_url
    nhref,           \* normalizer harness: href
    nres,            \* normalizer harness: normalize_url(nbase, nhref)
    nres2,           \* normalizer harness: normalize_url(nbase, nres)
    estage,          \* extractor harness: 0 = container drawn, 1 = extracted
    econtainer,      \* extractor harness: the container element
    eresult          \* extractor harness: extract_content_markdown(econtainer)

crawl_vars == <<pc, start_url, root_netloc, queue, visited, pages_written,
                words_processed, url, out_state, out_buffer, out_file,
                stderr_log, stdout_log, requests_log, link_dist, enqueued,
                off_domain>>
norm_vars == <<nstage, nbase, nhref, nres, nres2>>
extract_vars == <<estage, econtainer, eresult>>
vars == <<crawl_vars, norm_vars, extract_vars>>

----------------------------------------------------------------------------
(* Python str operations on token sequences.                               *)

\* Python None, as a value no token sequence of the alphabet equals
None == <<"None">>

\* tokens that are runs of letters (all of them in urllib's scheme_chars)
Letters == {"http", "https", "ftp", "mailto", "tel", "javascript", "d", "b", "a", "c"}

\* F applied to the value of v: v is evaluated once, however often F uses it
Bind(v, F(_)) == CHOOSE r \in {F(x) : x \in {v}} : TRUE

\* s.find(c, from) with 1-based positions; 0 when c does not occur
Find(s, c, from) ==
    IF \E i \in from..Len(s) : s[i] = c
    THEN CHOOSE i \in from..Len(s) : s[i] = c /\ \A j \in from..(i - 1) : s[j] # c
    ELSE 0

\* s.rfind(c); 0 when c does not occur
RFind(s, c) ==
    IF \E i \in 1..Len(s) : s[i] = c
    THEN CHOOSE i \in 1..Len(s) : s[i] = c /\ \A j \in (i + 1)..Len(s) : s[j] # c
    ELSE 0

\* s[from:] with a 1-based from
Drop(s, from) == SubSeq(s, from, Len(s))

\* s.lstrip(c)
LStrip(s, c) ==
    IF \A i \in 1..Len(s) : s[i] = c THEN <<>>
    ELSE Drop(s, CHOOSE i \in 1..Len(s) : s[i] # c /\ \A j \in 1..(i - 1) : s[j] = c)

\* s.rstrip(c)
RStrip(s, c) ==
    IF \A i \in 1..Len(s) : s[i] = c THEN <<>>
    ELSE SubSeq(s, 1, CHOOSE i \in 1..Len(s) :
                          s[i] # c /\ \A j \in (i + 1)..Len(s) : s[j] = c)

\* s.strip() over an alphabet whose only whitespace is " "
Strip(s) == Bind(LStrip(s, " "), LAMBDA t : RStrip(t, " "))

\* s.startswith(p)
StartsWith(s, p) == Len(s) >= Len(p) /\ SubSeq(s, 1, Len(p)) = p

\* s.split(c, 1) when c occurs in s: the text before and after the first c
Partition(s, c) ==
    Bind(Find(s, c, 1), LAMBDA i :
        IF i = 0 THEN [head |-> s, tail |-> <<>>]
        ELSE [head |-> SubSeq(s, 1, i - 1), tail |-> Drop(s, i + 1)])

\* s.split(c): the pieces between the occurrences of c
Split(s, c) ==
    Bind({i \in 1..Len(s) : s[i] = c}, LAMBDA at :
        [k \in 1..(Cardinality(at) + 1) |->
            SubSeq(s,
                   IF k = 1 THEN 1
                   ELSE 1 + CHOOSE i \in at : Cardinality({j \in at : j < i}) = k - 2,
                   IF k = Cardinality(at) + 1 THEN Len(s)
                   ELSE (CHOOSE i \in at : Cardinality({j \in at : j < i}) = k - 1) - 1)])

\* c.join(pieces[k:])
RECURSIVE JoinFrom(_, _, _)
JoinFrom(pieces, c, k) ==
    IF k > Len(pieces) THEN <<>>
    ELSE IF k = Len(pieces) THEN pieces[k]
    ELSE pieces[k] \o <<c>> \o JoinFrom(pieces, c, k + 1)

\* c.join(pieces)
Join(pieces, c) == JoinFrom(pieces, c, 1)

\* filter(None, pieces): the non-empty pieces
NonEmptyPieces(pieces) == SelectSeq(pieces, LAMBDA p : p # <<>>)

----------------------------------------------------------------------------
(* urllib.parse, as normalize_url, is_same_domain and crawl use it.        *)

\* the schemes of urllib's tables that the alphabet can spell
uses_relative == {<<>>, <<"ftp">>, <<"http">>, <<"https">>}
uses_netloc == {<<>>, <<"ftp">>, <<"http">>, <<"https">>}
uses_params == {<<>>, <<"ftp">>, <<"http">>, <<"https">>, <<"tel">>}

\* urllib.parse._splitnetloc(u, 2): the authority after a leading "//"
splitnetloc(u) ==
    Bind(IF \E i \in 3..Len(u) : u[i] \in {"/", "?", "#"}
         THEN CHOOSE i \in 3..Len(u) :
                  u[i] \in {"/", "?", "#"}
                  /\ \A j \in 3..(i - 1) : u[j] \notin {"/", "?", "#"}
         ELSE Len(u) + 1,
         LAMBDA delim : [netloc |-> SubSeq(u, 3, delim - 1), rest |-> Drop(u, delim)])

\* urllib.parse.urlsplit(u, scheme)
urlsplit(u, scheme) ==
    Bind(LStrip(u, " "), LAMBDA u1 :
    Bind(Find(u1, ":", 1), LAMBDA i :
    Bind(i > 1 /\ \A k \in 1..(i - 1) : u1[k] \in Letters, LAMBDA found :
    Bind(IF found THEN Drop(u1, i + 1) ELSE u1, LAMBDA u2 :
    Bind(IF StartsWith(u2, <<"/", "/">>) THEN splitnetloc(u2)
         ELSE [netloc |-> <<>>, rest |-> u2], LAMBDA auth :
    Bind(Partition(auth.rest, "#"), LAMBDA f :
    Bind(Partition(f.head, "?"), LAMBDA q :
        [scheme |-> IF found THEN SubSeq(u1, 1, i - 1) ELSE scheme,
         netloc |-> auth.netloc, path |-> q.head, query |-> q.tail,
         fragment |-> f.tail])))))))

\* urllib.parse._splitparams(path), called when ";" occurs in path
splitparams(path) ==
    Bind(RFind(path, "/"), LAMBDA slash :
    Bind(IF slash > 0 THEN Find(path, ";", slash) ELSE Find(path, ";", 1), LAMBDA i :
        IF i = 0 THEN [path |-> path, params |-> <<>>]
        ELSE [path |-> SubSeq(path, 1, i - 1), params |-> Drop(path, i + 1)]))

\* urllib.parse.urlparse(u, scheme)
urlparse(u, scheme) ==
    Bind(urlsplit(u, scheme), LAMBDA s :
    Bind(IF s.scheme \in uses_params /\ Find(s.path, ";", 1) > 0
         THEN splitparams(s.path)
         ELSE [path |-> s.path, params |-> <<>>], LAMBDA sp :
        [scheme |-> s.scheme, netloc |-> s.netloc, path |-> sp.path,
         params |-> sp.params, query |-> s.query, fragment |-> s.fragment]))

\* urllib.parse.urlunsplit
urlunsplit(scheme, netloc, path, query, fragment) ==
    (IF scheme # <<>> THEN scheme \o <<":">> ELSE <<>>)
    \o (IF netloc # <<>>
           \/ (scheme # <<>> /\ scheme \in uses_netloc
               /\ ~StartsWith(path, <<"/", "/">>))
        THEN <<"/", "/">> \o netloc
             \o (IF path # <<>> /\ path[1] # "/" THEN <<"/">> ELSE <<>>)
        ELSE <<>>)
    \o path
    \o (IF query # <<>> THEN <<"?">> \o query ELSE <<>>)
    \o (IF fragment # <<>> THEN <<"#">> \o fragment ELSE <<>>)

\* urllib.parse.urlunparse; ParseResult.geturl() is urlunparse of the fields
urlunparse(p) ==
    urlunsplit(p.scheme, p.netloc,
               IF p.params # <<>> THEN p.path \o <<";">> \o p.params ELSE p.path,
               p.query, p.fragment)

\* the path urljoin resolves a relative path to, against the base path
resolved_path(bpath, path) ==
    Bind(Split(bpath, "/"), LAMBDA parts :
    Bind(IF parts[Len(parts)] # <<>> THEN SubSeq(parts, 1, Len(parts) - 1)
         ELSE parts, LAMBDA base_parts :
    Bind(base_parts \o Split(path, "/"), LAMBDA joined :
    Bind(IF StartsWith(path, <<"/">>) THEN Split(path, "/")
         ELSE IF Len(joined) <= 2 THEN joined
         ELSE <<joined[1]>>
              \o NonEmptyPieces(SubSeq(joined, 2, Len(joined) - 1))
              \o <<joined[Len(joined)]>>, LAMBDA segments :
    Bind(Join(segments, "/"), LAMBDA resolved :
        IF resolved = <<>> THEN <<"/">> ELSE resolved)))))

\* urllib.parse.urljoin(base, u)
urljoin(base, u) ==
    IF base = <<>> THEN u
    ELSE IF u = <<>> THEN base
    ELSE
    Bind(urlparse(base, <<>>), LAMBDA b :
    Bind(urlparse(u, b.scheme), LAMBDA r :
    Bind(IF r.scheme \in uses_netloc THEN b.netloc ELSE r.netloc, LAMBDA netloc :
        IF r.scheme # b.scheme \/ r.scheme \notin uses_relative THEN u
        ELSE IF r.scheme \in uses_netloc /\ r.netloc # <<>> THEN urlunparse(r)
        ELSE IF r.path = <<>> /\ r.params = <<>>
        THEN urlunparse([scheme |-> r.scheme, netloc |-> netloc, path |-> b.path,
                         params |-> b.params,
                         query |-> IF r.query = <<>> THEN b.query ELSE r.query,
                         fragment |-> r.fragment])
        ELSE urlunparse([scheme |-> r.scheme, netloc |-> netloc,
                         path |-> resolved_path(b.path, r.path),
                         params |-> r.params, query |-> r.query,
                         fragment |-> r.fragment]))))

\* urllib.parse.urldefrag(u)[0]
urldefrag(u) ==
    IF Find(u, "#", 1) > 0
    THEN Bind(urlparse(u, <<>>), LAMBDA p : urlunparse([p EXCEPT !.fragment = <<>>]))
    ELSE u

----------------------------------------------------------------------------
(* The URL normalizer and the domain filter.                               *)

\* normalize_url(base_url, href): a URL string, or None
normalize_url(base_url, href) ==
    IF href = <<>> THEN None
    ELSE
    Bind(Strip(href), LAMBDA h :
        IF \/ StartsWith(h, <<"mailto", ":">>)
           \/ StartsWith(h, <<"tel", ":">>)
           \/ StartsWith(h, <<"javascript", ":">>)
        THEN None
        ELSE
        Bind(urljoin(base_url, h), LAMBDA joined :
        Bind(urldefrag(joined), LAMBDA absolute :
        Bind(urlparse(absolute, <<>>), LAMBDA parsed :
        Bind(IF parsed.path = <<>> THEN <<"/">> ELSE parsed.path, LAMBDA path :
            IF parsed.scheme \notin {<<"http">>, <<"https">>} THEN None
            ELSE urlunparse([parsed EXCEPT
                                !.path = IF path # <<"/">> THEN RStrip(path, "/")
                                         ELSE path,
                                !.params = <<>>,
                                !.fragment = <<>>]))))))

\* a domain filter that accepts every URL with a host
is_same_domain_any_host(u, netloc) == urlparse(u, <<>>).netloc # <<>>

\* is_same_domain(url, root_netloc)
is_same_domain(u, netloc) == urlparse(u, <<>>).netloc = netloc

----------------------------------------------------------------------------
(* Bounds and inputs of the crawl.                                         *)

\* most hyperlinks on one page
MaxLinks == 2

\* the start_url arguments tried: one valid, one with a rejected scheme, one
\* with no scheme
StartURLs == {<<"https", ":", "/", "/", "d">>,
              <<"ftp", ":", "/", "/", "d", "/">>,
              <<"/", "a">>}

\* what the output path holds before the crawl: a record of an earlier run
OldContent == <<[title |-> <<"old">>, source |-> <<"old">>, body |-> <<"old">>]>>

\* the href attributes that occur on pages
Hrefs == {<<"/", "a">>,
          <<"/", "b", "/">>,
          <<"c", "#", "a">>,
          <<"/", "/", "b", "/", "a">>,
          <<"mailto", ":", "a">>}

\* the selectors crawl() decomposes before extraction (line 186)
BoilerplateSelectors == {"nav", "footer", "aside", "script", "style", "noscript"}

\* a hyperlink: its href and the element that encloses it
Anchors == [href : Hrefs, region : {"main"}]
           \cup {[href |-> <<"c", "#", "a">>, region |-> "nav"]}

RECURSIVE SeqsUpTo(_, _)
SeqsUpTo(S, n) ==
    IF n = 0 THEN {<<>>}
    ELSE LET shorter == SeqsUpTo(S, n - 1)
         IN  shorter \cup {Append(q, x) : q \in {r \in shorter : Len(r) = n - 1}, x \in S}

\* the text of the record written for a page without extractable content (line 199)
Placeholder == <<"[No", " ", "extractable", " ", "content", " ", "found]">>

\* the <title> text of the pages served (None: the page has no <title>) with
\* what extract_content_markdown returns for them: a page without content, a
\* page with two words, a page whose only paragraph is the placeholder's text
Contents == {[title |-> None, body_md |-> <<>>],
             [title |-> <<"Open", "\n", " ", "Claw">>,
              body_md |-> <<"Hello", " ", "world">>],
             [title |-> <<"Open", "\n", " ", "Claw">>, body_md |-> Placeholder]}

\* a parsed HTML document, as far as crawl() reads it
Pages == {[title |-> c.title, anchors |-> a, body_md |-> c.body_md] :
             a \in SeqsUpTo(Anchors, MaxLinks), c \in Contents}

NoPage == [title |-> None, anchors |-> <<>>, body_md |-> <<>>]

\* the Content-Type headers served
ContentTypes == {"text/html; charset=utf-8", "application/json"}

\* "text/html" in resp.headers.get("Content-Type", "")  (line 173)
ContainsTextHtml(ctype) == ctype \in {"text/html; charset=utf-8"}

\* the HTTP statuses served
Statuses == {200, 404}

\* resp.raise_for_status() raises for a 4xx or 5xx status (line 175)
RaisesForStatus(status) == status >= 400 /\ status < 600

\* the responses session.get can return: a page only matters when it is parsed
Responses == [status : Statuses, ctype : ContentTypes, page : {NoPage}]
             \cup [status : {200}, ctype : {"text/html; charset=utf-8"}, page : Pages]

----------------------------------------------------------------------------
(* Tabulated normalizer and domain filter over the URLs of the crawl.      *)

\* the URLs one hyperlink away from the URLs of S
Linked(S) == S \cup ({normalize_url(b, h) : b \in S, h \in Hrefs} \ {None})

\* urlparse(start_url) and normalize_url(start_url, start_url) for every
\* start URL (lines 141, 146)
ParsedStart == [s \in StartURLs |-> urlparse(s, <<>>)]
NormalizedStart == [s \in StartURLs |-> normalize_url(s, s)]

StartNormalized == {NormalizedStart[s] : s \in StartURLs} \ {None}
OneLink == Linked(StartNormalized)
TwoLinks == Linked(OneLink)

\* every URL string a crawl from StartURLs can meet: following a third
\* hyperlink adds no URL to TwoLinks
URLUniverse == Linked(TwoLinks)

\* normalize_url(url, a["href"]) for every page URL and href (line 212)
Normalized == [b \in URLUniverse |-> [h \in Hrefs |-> normalize_url(b, h)]]

\* is_same_domain(nxt, root_netloc) for every URL and root (line 215)
RootNetlocs == {ParsedStart[s].netloc : s \in StartURLs}
SameDomain == [u \in URLUniverse |-> [n \in RootNetlocs |-> is_same_domain(u, n)]]

----------------------------------------------------------------------------
(* Text helpers of crawl().                                                *)

IsSpace(t) == t \in {" ", "\n"}

\* clean_text(text): whitespace runs collapse to one space, ends are trimmed
\* (the alphabet has no HTML entity, so unescape changes nothing)
clean_text(text) ==
    LET keep == {i \in 1..Len(text) :
                    \/ ~IsSpace(text[i])
                    \/ /\ i > 1 /\ ~IsSpace(text[i - 1])
                       /\ \E j \in (i + 1)..Len(text) : ~IsSpace(text[j])}
        pick[i \in 0..Len(text)] ==
            IF i = 0 THEN <<>>
            ELSE IF i \in keep
                 THEN Append(pick[i - 1], IF IsSpace(text[i]) THEN " " ELSE text[i])
                 ELSE pick[i - 1]
    IN  pick[Len(text)]

\* len(re.findall(r"\S+", body_md)): the maximal runs of non-whitespace (line 204)
WordCount(text) ==
    Cardinality({i \in 1..Len(text) :
                    ~IsSpace(text[i]) /\ (i = 1 \/ IsSpace(text[i - 1]))})

\* a writer that writes the extracted body as it is, empty or not
PageRecordRawBody(title, source, body_md) ==
    [title |-> title, source |-> source, body |-> body_md]

\* the Page Record written by lines 193-200
PageRecord(title, source, body_md) ==
    [title |-> title, source |-> source,
     body |-> IF body_md # <<>> THEN body_md ELSE Placeholder]

\* the anchors soup.find_all("a", href=True) returns at line 211: those the
\* decompose() calls of lines 186-188 have left in the tree
FoundAnchors(page) ==
    SelectSeq(page.anchors, LAMBDA a : a.region \notin BoilerplateSelectors)

\* the URLs lines 211-218 append to the queue, in order
DiscoveredLinks(anchors, base, netloc, seen) ==
    Bind([i \in 1..Len(anchors) |-> Normalized[base][anchors[i].href]], LAMBDA nxt :
        SelectSeq(nxt, LAMBDA n : /\ n # None
                                  /\ SameDomain[n][netloc]
                                  /\ n \notin seen))

\* the network location of every URL of the crawl
NetlocOf == [u \in URLUniverse |-> urlparse(u, <<>>).netloc]

\* every valid URL on another host that a hyperlink of the page, as parsed,
\* points to
OffDomainLinks(page, base, netloc) ==
    {n \in {Normalized[base][page.anchors[i].href] : i \in 1..Len(page.anchors)} :
        n # None /\ NetlocOf[n] # netloc}

\* every valid same-domain URL a hyperlink of the page, as parsed, points to
PageLinks(page, base, netloc) ==
    {n \in {Normalized[base][page.anchors[i].href] : i \in 1..Len(page.anchors)} :
        n # None /\ SameDomain[n][netloc]}

\* link_dist after the page at `from` is seen to link to `targets`: a target
\* is one hyperlink further from the start URL than the page, unless a shorter
\* chain to it is known
Relaxed(dist, from, targets) ==
    IF from \notin DOMAIN dist THEN dist
    ELSE [v \in DOMAIN dist \cup targets |->
            IF v \in targets
            THEN IF v \in DOMAIN dist /\ dist[v] <= dist[from] + 1
                 THEN dist[v] ELSE dist[from] + 1
            ELSE dist[v]]

----------------------------------------------------------------------------
(* crawl(start_url, output_path, timeout).                                 *)

NormIdle == nstage = 0 /\ nbase = <<>> /\ nhref = <<>> /\ nres = None /\ nres2 = None

ExtractIdle == estage = 0 /\ econtainer = None /\ eresult = None

\* the state when crawl() is called
Init ==
    /\ pc = "init"
    /\ start_url \in StartURLs
    /\ root_netloc = <<>>
    /\ queue = <<>>
    /\ visited = {}
    /\ pages_written = 0
    /\ words_processed = 0
    /\ url = None
    /\ out_state = "unopened"
    /\ out_buffer = <<>>
    /\ out_file = OldContent
    /\ stderr_log = <<>>
    /\ stdout_log = <<>>
    /\ requests_log = <<>>
    /\ link_dist = <<>>
    /\ off_domain = {}
    /\ enqueued = <<>>
    /\ NormIdle
    /\ ExtractIdle

\* a crawl() that opens the output before it validates the start URL
CrawlStartOpensFirst ==
    /\ pc = "init"
    /\ out_file' = <<>>
    /\ LET parsed_start == ParsedStart[start_url]
           start_normalized == NormalizedStart[start_url]
       IN  IF parsed_start.scheme \notin {<<"http">>, <<"https">>}
              \/ start_normalized = None
           THEN /\ pc' = "failed"
                /\ out_state' = "closed"
                /\ UNCHANGED <<root_netloc, queue, visited, link_dist, enqueued>>
           ELSE /\ pc' = "loop"
                /\ root_netloc' = parsed_start.netloc
                /\ queue' = <<start_normalized>>
                /\ enqueued' = <<start_normalized>>
                /\ link_dist' = (start_normalized :> 0)
                /\ visited' = {}
                /\ out_state' = "open"
    /\ UNCHANGED <<start_url, pages_written, words_processed, url, out_buffer,
                   stderr_log, stdout_log, requests_log, off_domain, norm_vars, extract_vars>>

\* lines 141-155: validate the start URL, seed the queue, open the output
CrawlStart ==
    /\ pc = "init"
    /\ LET parsed_start == ParsedStart[start_url]
           start_normalized == NormalizedStart[start_url]
       IN  IF parsed_start.scheme \notin {<<"http">>, <<"https">>}
              \/ start_normalized = None
           THEN /\ pc' = "failed"
                /\ UNCHANGED <<root_netloc, queue, visited, out_state, out_file,
                               link_dist, enqueued>>
           ELSE /\ pc' = "loop"
                /\ root_netloc' = parsed_start.netloc
                /\ queue' = <<start_normalized>>
                /\ enqueued' = <<start_normalized>>
                /\ link_dist' = (start_normalized :> 0)
                /\ visited' = {}
                /\ out_state' = "open"
                /\ out_file' = <<>>
    /\ UNCHANGED <<start_url, pages_written, words_processed, url, out_buffer,
                   stderr_log, stdout_log, requests_log, off_domain, norm_vars, extract_vars>>

\* a loop that fetches every entry it pops, visited or not
DequeueUnchecked ==
    /\ pc = "loop"
    /\ queue # <<>>
    /\ url' = Head(queue)
    /\ queue' = Tail(queue)
    /\ visited' = visited \cup {Head(queue)}
    /\ requests_log' = Append(requests_log,
                              [url |-> Head(queue), outcome |-> "pending",
                               status |-> 0, ctype |-> "", body_md |-> None])
    /\ pc' = "fetch"
    /\ UNCHANGED <<start_url, root_netloc, pages_written, words_processed,
                   out_state, out_buffer, out_file, stderr_log, stdout_log,
                   link_dist, enqueued, off_domain, norm_vars, extract_vars>>

\* a loop that reads the head of the queue and removes it only when it is
\* fetched, so that a visited entry stays at the head
DequeueKeepsDuplicate ==
    /\ pc = "loop"
    /\ queue # <<>>
    /\ url' = Head(queue)
    /\ IF Head(queue) \in visited
       THEN UNCHANGED <<pc, queue, visited, requests_log>>
       ELSE /\ queue' = Tail(queue)
            /\ visited' = visited \cup {Head(queue)}
            /\ requests_log' = Append(requests_log,
                                      [url |-> Head(queue), outcome |-> "pending",
                                       status |-> 0, ctype |-> "",
                                       body_md |-> None])
            /\ pc' = "fetch"
    /\ UNCHANGED <<start_url, root_netloc, pages_written, words_processed,
                   out_state, out_buffer, out_file, stderr_log, stdout_log,
                   link_dist, enqueued, off_domain, norm_vars, extract_vars>>

\* a loop that reports every duplicate entry it drops as a failure
DequeueWarnsDuplicate ==
    /\ pc = "loop"
    /\ queue # <<>>
    /\ url' = Head(queue)
    /\ queue' = Tail(queue)
    /\ IF Head(queue) \in visited
       THEN /\ stderr_log' = Append(stderr_log, Head(queue))
            /\ UNCHANGED <<pc, visited, requests_log>>
       ELSE /\ visited' = visited \cup {Head(queue)}
            /\ requests_log' = Append(requests_log,
                                      [url |-> Head(queue), outcome |-> "pending",
                                       status |-> 0, ctype |-> "",
                                       body_md |-> None])
            /\ pc' = "fetch"
            /\ UNCHANGED stderr_log
    /\ UNCHANGED <<start_url, root_netloc, pages_written, words_processed,
                   out_state, out_buffer, out_file, stdout_log,
                   link_dist, enqueued, off_domain, norm_vars, extract_vars>>

\* lines 165-172: pop the next entry; drop it when visited, else mark it
\* visited and issue the request
Dequeue ==
    /\ pc = "loop"
    /\ queue # <<>>
    /\ url' = Head(queue)
    /\ queue' = Tail(queue)
    /\ IF Head(queue) \in visited
       THEN UNCHANGED <<pc, visited, requests_log>>
       ELSE /\ visited' = visited \cup {Head(queue)}
            /\ requests_log' = Append(requests_log,
                                      [url |-> Head(queue), outcome |-> "pending",
                                       status |-> 0, ctype |-> "",
                                       body_md |-> None])
            /\ pc' = "fetch"
    /\ UNCHANGED <<start_url, root_netloc, pages_written, words_processed,
                   out_state, out_buffer, out_file, stderr_log, stdout_log,
                   link_dist, enqueued, off_domain, norm_vars, extract_vars>>

\* requests_log with the outcome of the request in progress filled in
\* (body_md: what extract_content_markdown returned, None when it was not called)
Answered(outcome, status, ctype, body_md) ==
    [requests_log EXCEPT ![Len(requests_log)] =
        [url |-> url, outcome |-> outcome, status |-> status, ctype |-> ctype,
         body_md |-> body_md]]

\* a handler that puts the URL back on the queue to retry it
FetchExceptionRetry ==
    /\ pc = "fetch"
    /\ stderr_log' = Append(stderr_log, url)
    /\ requests_log' = [requests_log EXCEPT ![Len(requests_log)].outcome = "exception"]
    /\ queue' = Append(queue, url)
    /\ enqueued' = Append(enqueued, url)
    /\ visited' = visited \ {url}
    /\ pc' = "loop"
    /\ UNCHANGED <<start_url, root_netloc, pages_written, words_processed, url,
                   out_state, out_buffer, out_file, stdout_log, link_dist,
                   off_domain, norm_vars, extract_vars>>

\* lines 172, 176-178: session.get raises (connection error, timeout): warn, continue
FetchException ==
    /\ pc = "fetch"
    /\ stderr_log' = Append(stderr_log, url)
    /\ requests_log' = Answered("exception", 0, "", None)
    /\ pc' = "loop"
    /\ UNCHANGED <<start_url, root_netloc, queue, visited, pages_written,
                   words_processed, url, out_state, out_buffer, out_file,
                   stdout_log, link_dist, enqueued, off_domain, norm_vars, extract_vars>>

\* a Content-Type check that reports the response it skips as a failure
FetchNonHtmlWarned(resp) ==
    /\ pc = "fetch"
    /\ ~ContainsTextHtml(resp.ctype)
    /\ requests_log' = Answered("response", resp.status, resp.ctype, None)
    /\ stderr_log' = Append(stderr_log, url)
    /\ pc' = "loop"
    /\ UNCHANGED <<start_url, root_netloc, queue, visited, pages_written,
                   words_processed, url, out_state, out_buffer, out_file,
                   stdout_log, link_dist, enqueued, off_domain, norm_vars, extract_vars>>

\* lines 173-174: a response whose Content-Type lacks "text/html": continue
FetchNonHtml(resp) ==
    /\ pc = "fetch"
    /\ ~ContainsTextHtml(resp.ctype)
    /\ requests_log' = Answered("response", resp.status, resp.ctype, None)
    /\ pc' = "loop"
    /\ UNCHANGED <<start_url, root_netloc, queue, visited, pages_written,
                   words_processed, url, out_state, out_buffer, out_file,
                   stderr_log, stdout_log, link_dist, enqueued, off_domain, norm_vars, extract_vars>>

\* lines 175-178: an HTML response with an error status: raise_for_status
\* raises, the handler warns, continue
FetchErrorStatus(resp) ==
    /\ pc = "fetch"
    /\ ContainsTextHtml(resp.ctype)
    /\ RaisesForStatus(resp.status)
    /\ stderr_log' = Append(stderr_log, url)
    /\ requests_log' = Answered("response", resp.status, resp.ctype, None)
    /\ pc' = "loop"
    /\ UNCHANGED <<start_url, root_netloc, queue, visited, pages_written,
                   words_processed, url, out_state, out_buffer, out_file,
                   stdout_log, link_dist, enqueued, off_domain, norm_vars, extract_vars>>

\* lines 155, 172, 176: session.get raises an exception that is not a
\* requests.RequestException (KeyboardInterrupt, for one): it propagates out of
\* the loop and out of the with block, which closes the stream, flushing it
FetchInterrupted ==
    /\ pc = "fetch"
    /\ requests_log' = Answered("interrupted", 0, "", None)
    /\ out_file' = out_file \o out_buffer
    /\ out_buffer' = <<>>
    /\ out_state' = "closed"
    /\ pc' = "aborted"
    /\ UNCHANGED <<start_url, root_netloc, queue, visited, pages_written,
                   words_processed, url, stderr_log, stdout_log, link_dist,
                   enqueued, off_domain, norm_vars, extract_vars>>

\* a writer that puts each new record at the head of the document
FetchPageWritesFirst(resp) ==
    /\ pc = "fetch"
    /\ ContainsTextHtml(resp.ctype)
    /\ ~RaisesForStatus(resp.status)
    /\ LET page == resp.page
           title == IF page.title # None THEN clean_text(page.title) ELSE url
           body_md == page.body_md
           written == Append(out_buffer, PageRecord(title, url, body_md))
           page_words == WordCount(body_md)
           found == DiscoveredLinks(FoundAnchors(page), url, root_netloc, visited)
       IN  /\ out_file' = written \o out_file
           /\ out_buffer' = <<>>
           /\ pages_written' = pages_written + 1
           /\ words_processed' = words_processed + page_words
           /\ stdout_log' = Append(stdout_log,
                                   [line |-> "ok", pages |-> pages_written + 1,
                                    words |-> words_processed + page_words,
                                    page_words |-> page_words, url |-> url])
           /\ queue' = queue \o found
           /\ enqueued' = enqueued \o found
           /\ requests_log' = Answered("response", resp.status, resp.ctype, body_md)
           /\ link_dist' = Relaxed(link_dist, url, PageLinks(page, url, root_netloc))
           /\ off_domain' = off_domain \cup OffDomainLinks(page, url, root_netloc)
    /\ pc' = "loop"
    /\ UNCHANGED <<start_url, root_netloc, visited, url, out_state, stderr_log,
                   norm_vars, extract_vars>>

\* a writer that leaves each record in the stream buffer, without flush
FetchPageUnflushed(resp) ==
    /\ pc = "fetch"
    /\ ContainsTextHtml(resp.ctype)
    /\ ~RaisesForStatus(resp.status)
    /\ LET page == resp.page
           title == IF page.title # None THEN clean_text(page.title) ELSE url
           body_md == page.body_md
           written == Append(out_buffer, PageRecord(title, url, body_md))
           page_words == WordCount(body_md)
           found == DiscoveredLinks(FoundAnchors(page), url, root_netloc, visited)
       IN  /\ out_file' = out_file
           /\ out_buffer' = written
           /\ pages_written' = pages_written + 1
           /\ words_processed' = words_processed + page_words
           /\ stdout_log' = Append(stdout_log,
                                   [line |-> "ok", pages |-> pages_written + 1,
                                    words |-> words_processed + page_words,
                                    page_words |-> page_words, url |-> url])
           /\ queue' = queue \o found
           /\ enqueued' = enqueued \o found
           /\ requests_log' = Answered("response", resp.status, resp.ctype, body_md)
           /\ link_dist' = Relaxed(link_dist, url, PageLinks(page, url, root_netloc))
           /\ off_domain' = off_domain \cup OffDomainLinks(page, url, root_netloc)
    /\ pc' = "loop"
    /\ UNCHANGED <<start_url, root_netloc, visited, url, out_state, stderr_log,
                   norm_vars, extract_vars>>

\* a counter that counts the words of the record body as written, placeholder
\* included
FetchPageCountsRecord(resp) ==
    /\ pc = "fetch"
    /\ ContainsTextHtml(resp.ctype)
    /\ ~RaisesForStatus(resp.status)
    /\ LET page == resp.page
           title == IF page.title # None THEN clean_text(page.title) ELSE url
           body_md == page.body_md
           written == Append(out_buffer, PageRecord(title, url, body_md))
           page_words == WordCount(PageRecord(title, url, body_md).body)
           found == DiscoveredLinks(FoundAnchors(page), url, root_netloc, visited)
       IN  /\ out_file' = out_file \o written
           /\ out_buffer' = <<>>
           /\ pages_written' = pages_written + 1
           /\ words_processed' = words_processed + page_words
           /\ stdout_log' = Append(stdout_log,
                                   [line |-> "ok", pages |-> pages_written + 1,
                                    words |-> words_processed + page_words,
                                    page_words |-> page_words, url |-> url])
           /\ queue' = queue \o found
           /\ enqueued' = enqueued \o found
           /\ requests_log' = Answered("response", resp.status, resp.ctype, body_md)
           /\ link_dist' = Relaxed(link_dist, url, PageLinks(page, url, root_netloc))
           /\ off_domain' = off_domain \cup OffDomainLinks(page, url, root_netloc)
    /\ pc' = "loop"
    /\ UNCHANGED <<start_url, root_netloc, visited, url, out_state, stderr_log,
                   norm_vars, extract_vars>>

\* lines 180-221: parse, strip boilerplate, extract, write and flush the
\* record, count, report, discover links
FetchPage(resp) ==
    /\ pc = "fetch"
    /\ ContainsTextHtml(resp.ctype)
    /\ ~RaisesForStatus(resp.status)
    /\ LET page == resp.page
           title == IF page.title # None THEN clean_text(page.title) ELSE url
           body_md == page.body_md
           written == Append(out_buffer, PageRecord(title, url, body_md))
           page_words == WordCount(body_md)
           found == DiscoveredLinks(FoundAnchors(page), url, root_netloc, visited)
       IN  /\ out_file' = out_file \o written
           /\ out_buffer' = <<>>
           /\ pages_written' = pages_written + 1
           /\ words_processed' = words_processed + page_words
           /\ stdout_log' = Append(stdout_log,
                                   [line |-> "ok", pages |-> pages_written + 1,
                                    words |-> words_processed + page_words,
                                    page_words |-> page_words, url |-> url])
           /\ queue' = queue \o found
           /\ enqueued' = enqueued \o found
           /\ requests_log' = Answered("response", resp.status, resp.ctype, body_md)
           /\ link_dist' = Relaxed(link_dist, url, PageLinks(page, url, root_netloc))
           /\ off_domain' = off_domain \cup OffDomainLinks(page, url, root_netloc)
    /\ pc' = "loop"
    /\ UNCHANGED <<start_url, root_netloc, visited, url, out_state, stderr_log,
                   norm_vars, extract_vars>>

\* lines 165, 155, 223-226: the queue is empty: leave the with block (which
\* closes the stream, flushing it), report
Finish ==
    /\ pc = "loop"
    /\ queue = <<>>
    /\ out_state' = "closed"
    /\ stdout_log' = Append(stdout_log,
                            [line |-> "done", pages |-> pages_written,
                             words |-> words_processed, page_words |-> 0,
                             url |-> None])
    /\ out_file' = out_file \o out_buffer
    /\ out_buffer' = <<>>
    /\ pc' = "done"
    /\ UNCHANGED <<start_url, root_netloc, queue, visited, pages_written,
                   words_processed, url, stderr_log, requests_log, link_dist,
                   enqueued, off_domain, norm_vars, extract_vars>>

Next ==
    \/ CrawlStart
    \/ Dequeue
    \/ FetchException
    \/ \E resp \in Responses : FetchNonHtml(resp)
    \/ \E resp \in Responses : FetchErrorStatus(resp)
    \/ \E resp \in Responses : FetchPage(resp)
    \/ FetchInterrupted
    \/ Finish

Spec == Init /\ [][Next]_vars

----------------------------------------------------------------------------
(* The normalizer on its own: normalize_url applied to a base and an href, *)
(* then to the same base and its own result.                               *)

\* most tokens after the scheme and authority of an href
MaxTail == 3

\* the base URLs tried
NormBases == {<<"https", ":", "/", "/", "d", "/">>,
              <<"https", ":", "/", "/", "d", "/", "a", "/", "b">>,
              <<"http", ":", "/", "/", "d", "/", "a", ";", "c", "?", "b">>}

\* how an href starts: nothing, a scheme and an authority, an authority, a scheme
HrefPrefixes == {<<>>,
                 <<"https", ":", "/", "/", "d">>,
                 <<"/", "/", "b">>,
                 <<"ftp", ":", "/", "/", "d">>,
                 <<"http", ":">>,
                 <<"mailto", ":">>,
                 <<" ", "mailto", ":">>,
                 <<"tel", ":">>,
                 <<"javascript", ":">>}

\* the tokens an href goes on with
TailTokens == {"/", "a", ";", "?", "#", " "}

\* the hrefs tried
NormHrefs == {p \o t : p \in HrefPrefixes, t \in SeqsUpTo(TailTokens, MaxTail)}

CrawlIdle ==
    /\ pc = "idle"
    /\ start_url = <<>>
    /\ root_netloc = <<>>
    /\ queue = <<>>
    /\ visited = {}
    /\ pages_written = 0
    /\ words_processed = 0
    /\ url = None
    /\ out_state = "unopened"
    /\ out_buffer = <<>>
    /\ out_file = <<>>
    /\ stderr_log = <<>>
    /\ stdout_log = <<>>
    /\ requests_log = <<>>
    /\ link_dist = <<>>
    /\ off_domain = {}
    /\ enqueued = <<>>

InitNorm ==
    /\ CrawlIdle
    /\ nstage = 0
    /\ nbase \in NormBases
    /\ nhref \in NormHrefs
    /\ nres = None
    /\ nres2 = None
    /\ ExtractIdle

\* normalize_url(base, href)
NormalizeOnce ==
    /\ nstage = 0
    /\ nres' = normalize_url(nbase, nhref)
    /\ nstage' = 1
    /\ UNCHANGED <<crawl_vars, nbase, nhref, nres2, extract_vars>>

\* normalize_url(base, n) for the URL n the first call returned
NormalizeAgain ==
    /\ nstage = 1
    /\ nres # None
    /\ nres2' = normalize_url(nbase, nres)
    /\ nstage' = 2
    /\ UNCHANGED <<crawl_vars, nbase, nhref, nres, extract_vars>>

NextNorm == NormalizeOnce \/ NormalizeAgain

SpecNorm == InitNorm /\ [][NextNorm]_vars

----------------------------------------------------------------------------
(* Vocabulary of the properties.                                           *)

Range(s) == {s[i] : i \in 1..Len(s)}

\* how often x occurs in the sequence s
Count(s, x) == Cardinality({i \in 1..Len(s) : s[i] = x})

\* the URLs fetched, in order
Fetched == [i \in 1..Len(requests_log) |-> requests_log[i].url]

\* the source URLs of the records in the output file, in order
Sources == [i \in 1..Len(out_file) |-> out_file[i].source]

\* the crawl loop has been entered (and maybe left, normally or by an exception)
Crawling == pc \in {"loop", "fetch", "done", "aborted"}

\* a request that came back as an HTML response with a good status
Succeeded(r) ==
    r.outcome = "response" /\ ContainsTextHtml(r.ctype) /\ ~RaisesForStatus(r.status)

\* a request that ended in the except clause of lines 176-178: session.get
\* raised (network error, timeout), or raise_for_status raised on an HTML
\* response (a response that is not HTML never gets as far as line 175)
FetchFailed(r) ==
    \/ r.outcome = "exception"
    \/ /\ r.outcome = "response"
       /\ ContainsTextHtml(r.ctype)
       /\ RaisesForStatus(r.status)

----------------------------------------------------------------------------
(* Properties.                                                             *)

\* C1: no-revisit: each URL is fetched at most once and is the source of at
\* most one Page Record, however many queue entries name it.
C1_NoRevisit ==
    Crawling =>
        /\ \A i, j \in 1..Len(requests_log) :
               requests_log[i].url = requests_log[j].url => i = j
        /\ \A i, j \in 1..Len(out_file) :
               out_file[i].source = out_file[j].source => i = j

\* C1 witness: a finished crawl in which a URL was put on the queue twice and
\* has its one record.
C1_Witness ==
    /\ pc = "done"
    /\ \E u \in Range(enqueued) : Count(enqueued, u) >= 2 /\ Count(Sources, u) = 1

\* C2: breadth-first order: URLs are processed in the order of their first
\* enqueue, and in non-decreasing link distance from the start URL.
C2_BreadthFirstOrder ==
    Crawling =>
        \A i, j \in 1..Len(requests_log) :
            i < j =>
                LET u == requests_log[i].url
                    v == requests_log[j].url
                IN  /\ \E m \in 1..Len(enqueued) :
                           /\ enqueued[m] = u
                           /\ \A n \in 1..m : enqueued[n] # v
                    /\ link_dist[u] <= link_dist[v]

\* C3: completeness: when the crawl ends, every URL that chains of hyperlinks
\* on successfully fetched pages lead to from the start URL is visited, and
\* every successfully fetched page has a record.
C3_Complete ==
    pc = "done" =>
        /\ DOMAIN link_dist \subseteq visited
        /\ \A i \in 1..Len(requests_log) :
               Succeeded(requests_log[i]) => requests_log[i].url \in Range(Sources)

\* C4: domain scoping: every URL on the queue and every URL fetched has the
\* network location of the start URL.
C4_DomainScoping ==
    Crawling =>
        \A u \in Range(queue) \cup Range(Fetched) \cup Range(enqueued) :
            NetlocOf[u] = ParsedStart[start_url].netloc

\* C4 witness: a fetched page linked to another host, and the crawl went on
\* with further fetches and a non-empty queue.
C4_Witness ==
    /\ off_domain # {}
    /\ Len(requests_log) >= 2
    /\ queue # <<>>

\* C5: link discovery: every valid same-domain URL that a hyperlink of a
\* successfully fetched page points to, wherever the hyperlink is on the page,
\* has been appended to the queue (then, or earlier when it was visited by then).
C5_AllLinksDiscovered ==
    Crawling => DOMAIN link_dist \subseteq Range(enqueued)

\* C6: a fetch that fails (a network error, a timeout, an error status,
\* whether it is warned about or skipped by the Content-Type check) changes
\* nothing but the warning log, the loop goes on, and a URL whose fetch failed
\* is never fetched or enqueued again.
C6_FailureContained ==
    [][/\ (/\ pc = "fetch"
           /\ \/ FetchFailed(requests_log'[Len(requests_log')])
              \/ /\ requests_log'[Len(requests_log')].outcome = "response"
                 /\ RaisesForStatus(requests_log'[Len(requests_log')].status))
           => /\ pc' = "loop"
              /\ UNCHANGED <<queue, enqueued, visited, out_file, out_buffer,
                             pages_written, words_processed, stdout_log>>
       /\ \A i \in 1..Len(requests_log) :
              (\/ FetchFailed(requests_log[i])
               \/ /\ requests_log[i].outcome = "response"
                  /\ RaisesForStatus(requests_log[i].status))
              => /\ Count(enqueued', requests_log[i].url)
                      = Count(enqueued, requests_log[i].url)
                 /\ Count(Fetched', requests_log[i].url) = 1]_vars

\* C6 witness: a fetch failed and the crawl went on to write a page.
C6_Witness ==
    \E i, j \in 1..Len(requests_log) :
        /\ i < j
        /\ FetchFailed(requests_log[i])
        /\ Succeeded(requests_log[j])
        /\ requests_log[j].url \in Range(Sources)

\* C7: every response with an error status, whatever its Content-Type, is
\* logged as one warning that names the URL.
C7_ErrorStatusWarned ==
    \A i \in 1..Len(requests_log) :
        (requests_log[i].outcome = "response" /\ RaisesForStatus(requests_log[i].status))
        => Count(stderr_log, requests_log[i].url) = 1

\* C8: a start URL whose scheme is not http or https is rejected before
\* anything happens: no request, no record, the output file neither opened
\* nor truncated.
C8_InvalidStartRejected ==
    (pc \in {"init", "failed", "loop", "fetch", "done", "aborted"}
     /\ ParsedStart[start_url].scheme \notin {<<"http">>, <<"https">>})
    => /\ pc \in {"init", "failed"}
       /\ requests_log = <<>>
       /\ out_state = "unopened"
       /\ out_file = OldContent

\* C8 witness: crawl() has raised on a start URL with another scheme.
C8_Witness ==
    pc = "failed" /\ ParsedStart[start_url].scheme = <<"ftp">>

\* C9 as stated: every successfully fetched page has exactly one record, whose
\* body is the extracted markdown when that is not empty, and is the
\* placeholder when and only when the extracted markdown is empty.
C9_PlaceholderIffEmpty ==
    Crawling =>
        /\ Len(out_file)
              = Cardinality({i \in 1..Len(requests_log) : Succeeded(requests_log[i])})
        /\ \A i \in 1..Len(requests_log) :
               Succeeded(requests_log[i]) =>
                   /\ Count(Sources, requests_log[i].url) = 1
                   /\ \A k \in 1..Len(out_file) :
                          out_file[k].source = requests_log[i].url =>
                              /\ requests_log[i].body_md # <<>>
                                     => out_file[k].body = requests_log[i].body_md
                              /\ out_file[k].body = Placeholder
                                     <=> requests_log[i].body_md = <<>>

\* C9 amended: every successfully fetched page has exactly one record, written
\* in the iteration that fetched it, whose body is the extracted markdown when
\* that is not empty and the placeholder when it is empty.
C9_OneRecordPerPage ==
    Crawling =>
        /\ Len(out_file)
              = Cardinality({i \in 1..Len(requests_log) : Succeeded(requests_log[i])})
        /\ \A i \in 1..Len(requests_log) :
               Succeeded(requests_log[i]) =>
                   /\ Count(Sources, requests_log[i].url) = 1
                   /\ \A k \in 1..Len(out_file) :
                          out_file[k].source = requests_log[i].url =>
                              out_file[k].body = IF requests_log[i].body_md # <<>>
                                                 THEN requests_log[i].body_md
                                                 ELSE Placeholder

\* C9 witness: a page without extractable content and a page with content
\* have both been written.
C9_Witness ==
    /\ \E i \in 1..Len(requests_log) :
           Succeeded(requests_log[i]) /\ requests_log[i].body_md = <<>>
    /\ \E i \in 1..Len(requests_log) :
           Succeeded(requests_log[i])
           /\ requests_log[i].body_md = <<"Hello", " ", "world">>

\* C10: idempotence: normalizing a URL that normalize_url returned, against
\* the same base, returns it again.
C10_Idempotent ==
    nstage = 2 => nres2 = nres

\* the absolute URL normalize_url works on: href stripped, resolved against the
\* base, fragment removed (lines 17-22)
Resolved(base_url, href) == urldefrag(urljoin(base_url, Strip(href)))

\* C11: normal form: a URL that normalize_url returns has scheme http or https,
\* no fragment, no params, the query string of the resolved URL, and a path
\* that is "/" or is non-empty and does not end in "/".
C11_NormalForm ==
    (nstage >= 1 /\ nres # None) =>
        LET p == urlparse(nres, <<>>)
            r == urlparse(Resolved(nbase, nhref), <<>>)
        IN  /\ p.scheme \in {<<"http">>, <<"https">>}
            /\ p.fragment = <<>>
            /\ p.params = <<>>
            /\ p.query = r.query
            /\ \/ p.path = <<"/">>
               \/ p.path # <<>> /\ p.path[Len(p.path)] # "/"

\* C12: scheme rejection: normalize_url returns None for an empty or
\* whitespace-only href and for every href that resolves to a scheme other than
\* http and https (mailto:, tel:, javascript:, ftp:).
C12_Rejected ==
    nstage >= 1 =>
        LET h == Strip(nhref)
        IN  (\/ h = <<>>
             \/ \E s \in {"mailto", "tel", "javascript", "ftp"} :
                   StartsWith(h, <<s, ":">>)
             \/ urlparse(Resolved(nbase, nhref), <<>>).scheme
                   \notin {<<"http">>, <<"https">>})
            => nres = None

\* the URLs of the successful requests, in the order they were dequeued
SucceededURLs ==
    LET ok == SelectSeq(requests_log, Succeeded)
    IN  [i \in 1..Len(ok) |-> ok[i].url]

\* C13: output order: the records of the output document are those of the
\* successfully fetched pages in the order the pages were dequeued, and the
\* record of a page is complete in the document before the next queue entry
\* is dequeued or fetched.
C13_OutputOrder ==
    pc \in {"loop", "fetch", "done", "aborted"} =>
        /\ Sources = SucceededURLs
        /\ out_buffer = <<>>

\* C13 witness: two pages have been written and a third request is in progress.
C13_Witness ==
    /\ pc = "fetch"
    /\ Len(out_file) >= 2
    /\ \E i \in 1..Len(requests_log) : FetchFailed(requests_log[i])

\* C14: crash resilience: while a fetch is in progress and between iterations,
\* the file on disk holds the complete records of all pages counted in
\* pages_written and nothing is left in the stream buffer; once the loop has
\* been left, normally or by an exception, the stream is closed.
C14_FlushedAndClosed ==
    /\ pc \in {"loop", "fetch"} =>
           /\ out_state = "open"
           /\ out_buffer = <<>>
           /\ Len(out_file) = pages_written
           /\ Sources = SucceededURLs
    /\ pc \in {"done", "aborted"} =>
           /\ out_state = "closed"
           /\ out_buffer = <<>>
           /\ Len(out_file) = pages_written

\* C14 witness: the crawl was interrupted during a fetch after it had written
\* a page.
C14_Witness ==
    pc = "aborted" /\ pages_written >= 1 /\ out_state = "closed"

\* the request in progress is answered, in this step, by a response whose
\* Content-Type is not HTML
NonHtmlStep ==
    /\ pc = "fetch"
    /\ requests_log'[Len(requests_log')].outcome = "response"
    /\ ~ContainsTextHtml(requests_log'[Len(requests_log')].ctype)

\* C15: a response that is not HTML is skipped silently: no warning, no record,
\* no link enqueued, counters unchanged, the URL still visited; a warning is
\* printed only on the other path, that of a fetch error.
C15_SilentSkip ==
    [][/\ NonHtmlStep
          => /\ pc' = "loop"
             /\ url \in visited'
             /\ UNCHANGED <<stderr_log, stdout_log, out_file, out_buffer, queue,
                            enqueued, visited, pages_written, words_processed>>
       /\ stderr_log' # stderr_log
          => /\ ~NonHtmlStep
             /\ FetchFailed(requests_log'[Len(requests_log')])
             /\ stderr_log' = Append(stderr_log, url)]_vars

\* C15 witness: a non-HTML response was skipped, a fetch error was warned, and
\* the warning log names only the latter.
C15_Witness ==
    \E i, j \in 1..Len(requests_log) :
        /\ requests_log[i].outcome = "response"
        /\ ~ContainsTextHtml(requests_log[i].ctype)
        /\ requests_log[i].url \in visited
        /\ requests_log[j].outcome = "exception"
        /\ stderr_log = <<requests_log[j].url>>

\* C16: dequeuing a URL that is already visited only removes that queue entry:
\* no fetch, nothing written or logged, visited set, rest of the queue and
\* counters unchanged.
C16_DuplicateDropped ==
    [][(pc = "loop" /\ queue # <<>> /\ Head(queue) \in visited)
       => /\ queue' = Tail(queue)
          /\ UNCHANGED <<pc, visited, requests_log, out_state, out_file,
                         out_buffer, stderr_log, stdout_log, pages_written,
                         words_processed, enqueued>>]_vars

\* C16 witness: more entries have left the queue than requests were issued.
C16_Witness ==
    /\ pc = "loop"
    /\ Len(enqueued) - Len(queue) > Len(requests_log)
    /\ Len(requests_log) >= 2

----------------------------------------------------------------------------
(* The crawl on a site where every fetch returns: a response, a network    *)
(* error or a timeout. The loop keeps running while it can.                *)

NextReturning ==
    \/ CrawlStart
    \/ Dequeue
    \/ FetchException
    \/ \E resp \in Responses : FetchNonHtml(resp)
    \/ \E resp \in Responses : FetchErrorStatus(resp)
    \/ \E resp \in Responses : FetchPage(resp)
    \/ Finish

SpecReturning == Init /\ [][NextReturning]_vars /\ WF_vars(NextReturning)

\* C17: termination: when every fetch returns, the crawl loop eventually
\* empties the queue and ends (or crawl() has refused the start URL), whatever
\* cycles the links form and however many duplicate entries are queued.
C17_Terminates ==
    <>(pc = "failed" \/ (pc = "done" /\ queue = <<>> /\ out_state = "closed"))

\* C17 witness: a crawl has ended after it fetched a page that links back to
\* an already visited page and dropped duplicate entries.
C17_Witness ==
    /\ pc = "done"
    /\ queue = <<>>
    /\ Len(enqueued) > Len(requests_log)
    /\ Len(requests_log) >= 3

----------------------------------------------------------------------------
(* The parsed document tree, as BeautifulSoup hands it to the extractor,   *)
(* and extract_content_markdown(container).                                *)

\* a text node (NavigableString)
Text(t) == [name |-> "#text", cls |-> <<>>, text |-> t, kids |-> <<>>]

\* an element (Tag) with its class list and its children
Elem(n, c, k) == [name |-> n, cls |-> c, text |-> <<>>, kids |-> k]

\* s.strip(chars)
StripChars(s, chars) ==
    IF \A i \in 1..Len(s) : s[i] \in chars THEN <<>>
    ELSE SubSeq(s,
                CHOOSE i \in 1..Len(s) :
                    s[i] \notin chars /\ \A j \in 1..(i - 1) : s[j] \in chars,
                CHOOSE i \in 1..Len(s) :
                    s[i] \notin chars /\ \A j \in (i + 1)..Len(s) : s[j] \in chars)

\* the elements below node in document order, each with its parent and with
\* whether node or an element around node is a pre
RECURSIVE Descendants(_, _)
Descendants(node, inside) ==
    LET below[i \in 0..Len(node.kids)] ==
            IF i = 0 THEN <<>>
            ELSE IF node.kids[i].name = "#text" THEN below[i - 1]
            ELSE below[i - 1]
                 \o <<[node |-> node.kids[i], parent |-> node, inpre |-> inside]>>
                 \o Descendants(node.kids[i], inside \/ node.kids[i].name = "pre")
    IN  below[Len(node.kids)]

\* the text nodes at and below node, in document order
RECURSIVE all_strings(_)
all_strings(node) ==
    IF node.name = "#text" THEN <<node.text>>
    ELSE LET below[i \in 0..Len(node.kids)] ==
                 IF i = 0 THEN <<>> ELSE below[i - 1] \o all_strings(node.kids[i])
         IN  below[Len(node.kids)]

\* node.get_text(separator, strip=strip)
get_text(node, separator, strip) ==
    Bind(all_strings(node), LAMBDA strs :
        IF strip
        THEN Join(NonEmptyPieces([i \in 1..Len(strs) |->
                                     StripChars(strs[i], {" ", "\n"})]),
                  separator)
        ELSE Join(strs, separator))

\* lower-case of a token
Lower(t) == IF t = "PY" THEN "py" ELSE t

\* re.search(pat + "([a-zA-Z0-9_+-]+)", s).group(1).lower(), <<>> for no match
SearchLanguage(pat, s) ==
    Bind({i \in 1..(Len(s) - 1) : s[i] = pat /\ s[i + 1] # " "}, LAMBDA hits :
        IF hits = {} THEN <<>>
        ELSE Bind(CHOOSE i \in hits : \A j \in hits : i <= j, LAMBDA i :
             Bind(CHOOSE e \in (i + 1)..Len(s) :
                      /\ \A k \in (i + 1)..e : s[k] # " "
                      /\ e = Len(s) \/ s[e + 1] = " ", LAMBDA e :
                 [k \in 1..(e - i) |-> Lower(s[i + k])])))

\* the first language a class string names, by the two patterns in order
ClassLanguage(cls) ==
    Bind(Join(cls, " "), LAMBDA s :
    Bind(SearchLanguage("language-", s), LAMBDA first :
        IF first # <<>> THEN first ELSE SearchLanguage("lang-", s)))

\* infer_code_language(code_node), parent being code_node.parent
infer_code_language(code_node, parent) ==
    Bind(ClassLanguage(code_node.cls), LAMBDA own :
        IF own # <<>> THEN own ELSE ClassLanguage(parent.cls))

\* int(name[1]) for the heading names
HeadingLevel ==
    [n \in {"h1", "h2", "h3", "h4", "h5", "h6"} |->
        CASE n = "h1" -> 1 [] n = "h2" -> 2 [] n = "h3" -> 3
          [] n = "h4" -> 4 [] n = "h5" -> 5 [] n = "h6" -> 6]

\* '#' * n
Hashes(n) == [i \in 1..n |-> "#"]

\* the token for the three backquotes of a fence, written with quotes
Backticks == "'''"

\* the three lines of a fenced block
FencedLines(lang, code) == <<(<<Backticks>> \o lang), code, <<Backticks>>>>

\* what one iteration of the loop of lines 92-132 appends to lines, for the
\* element found (with its parent)
NodeLines(e) ==
    IF e.node.name \in DOMAIN HeadingLevel
    THEN Bind(clean_text(get_text(e.node, " ", TRUE)), LAMBDA text :
             IF text = <<>> THEN <<>>
             ELSE Bind(HeadingLevel[e.node.name] + 1, LAMBDA l :
                  <<Hashes(IF l < 6 THEN l ELSE 6) \o <<" ">> \o text>>))
    ELSE IF e.node.name \in {"p", "li", "blockquote"}
    THEN Bind(clean_text(get_text(e.node, " ", TRUE)), LAMBDA text :
             IF text = <<>> THEN <<>>
             ELSE <<(IF e.node.name = "li" THEN <<"-", " ">>
                     ELSE IF e.node.name = "blockquote" THEN <<">", " ">>
                     ELSE <<>>) \o text>>)
    ELSE IF e.node.name = "pre"
    THEN Bind(StripChars(get_text(e.node, "\n", FALSE), {"\n"}), LAMBDA code :
             IF code = <<>> THEN <<>>
             ELSE Bind(SelectSeq(Descendants(e.node, TRUE),
                                 LAMBDA d : d.node.name = "code"), LAMBDA codes :
                  FencedLines(IF codes # <<>>
                              THEN infer_code_language(codes[1].node, codes[1].parent)
                              ELSE <<>>,
                              code)))
    ELSE IF e.parent.name = "pre" THEN <<>>
    ELSE Bind(StripChars(get_text(e.node, "\n", FALSE), {"\n"}), LAMBDA text :
             IF text = <<>> THEN <<>>
             ELSE FencedLines(infer_code_language(e.node, e.parent), text))

\* re.sub(r"\n{3,}", "\n\n", result)
CompactBlankLines(result) ==
    LET pick[i \in 0..Len(result)] ==
            IF i = 0 THEN <<>>
            ELSE IF /\ result[i] = "\n"
                    /\ i > 2 /\ result[i - 1] = "\n" /\ result[i - 2] = "\n"
                 THEN pick[i - 1]
                 ELSE Append(pick[i - 1], result[i])
    IN  pick[Len(result)]

\* the element names container.find_all is given (line 92)
WalkedNames ==
    {"h1", "h2", "h3", "h4", "h5", "h6", "p", "li", "pre", "code", "blockquote"}

\* extract_content_markdown(container)
extract_content_markdown(container) ==
    Bind(SelectSeq(Descendants(container, container.name = "pre"),
                   LAMBDA e : e.node.name \in WalkedNames), LAMBDA found :
        LET lines[i \in 0..Len(found)] ==
                IF i = 0 THEN <<>> ELSE lines[i - 1] \o NodeLines(found[i])
        IN  Bind(Join(lines[Len(found)], "\n"), LAMBDA result :
                StripChars(CompactBlankLines(result), {" ", "\n"})))

----------------------------------------------------------------------------
(* The extractor on its own: containers with one piece of code in one of   *)
(* the places the extractor tells apart.                                   *)

\* the longest code text tried
MaxCode == 5

\* the text of a piece of code: letters and newlines
CodeTexts == SeqsUpTo({"x", "\n"}, MaxCode)

\* class attributes: none, a language-* class, a lang-* class after another
ClassLists == {<<>>, <<<<"language-", "PY">>>>, <<<<"hl">>, <<"lang-", "js">>>>}

\* an element that holds the code text t: <pre>t</pre>, <pre><code>t</code></pre>,
\* <pre><span><code>t</code></span></pre>, <pre>x<span>t</span></pre>,
\* <code>t</code>, <p>see <code>t</code></p>
CodeElements(t) ==
    {Elem("pre", c, <<Text(t)>>) : c \in {<<>>}}
    \cup {Elem("pre", <<>>, <<Elem("code", c, <<Text(t)>>)>>) : c \in ClassLists}
    \cup {Elem("pre", <<<<"lang-", "js">>>>, <<Elem("code", <<>>, <<Text(t)>>)>>)}
    \cup {Elem("pre", <<>>, <<Elem("span", <<>>, <<Elem("code", <<>>, <<Text(t)>>)>>)>>)}
    \cup {Elem("pre", <<>>, <<Text(<<"x">>), Elem("span", <<>>, <<Text(t)>>)>>)}
    \cup {Elem("code", c, <<Text(t)>>) : c \in ClassLists}
    \cup {Elem("p", <<>>, <<Text(<<"see", " ">>), Elem("code", <<>>, <<Text(t)>>)>>)}

\* what may stand before the code: nothing, a heading, a deep heading
Preludes ==
    {<<>>,
     <<Elem("h2", <<>>, <<Text(<<"Open", "\n", " ", "Claw">>)>>)>>,
     <<Elem("h6", <<>>, <<Text(<<"Claw">>)>>),
       Elem("blockquote", <<>>, <<Text(<<" ">>)>>)>>}

\* what may stand after the code: nothing, a list item, another code block
Trailers ==
    {<<>>,
     <<Elem("ul", <<>>, <<Elem("li", <<>>, <<Text(<<"Hello", " ", "world">>)>>)>>)>>,
     <<Elem("pre", <<>>, <<Text(<<"x">>)>>)>>}

\* the containers tried
Containers ==
    {Elem("main", <<>>, a \o <<e>> \o z) :
        a \in Preludes, e \in UNION {CodeElements(t) : t \in CodeTexts}, z \in Trailers}

InitExtract ==
    /\ CrawlIdle
    /\ NormIdle
    /\ estage = 0
    /\ econtainer \in Containers
    /\ eresult = None

\* body_md = extract_content_markdown(container)  (line 191)
Extract ==
    /\ estage = 0
    /\ eresult' = extract_content_markdown(econtainer)
    /\ estage' = 1
    /\ UNCHANGED <<crawl_vars, norm_vars, econtainer>>

NextExtract == Extract

SpecExtract == InitExtract /\ [][NextExtract]_vars

\* the text between the fences of every fenced block of a markdown text, in order
FencedBlocks(md) ==
    Bind(Split(md, "\n"), LAMBDA ls :
        LET scan[i \in 0..Len(ls)] ==
                IF i = 0 THEN [inside |-> FALSE, cur |-> <<>>, blocks |-> <<>>]
                ELSE Bind(scan[i - 1], LAMBDA s :
                     IF ~s.inside
                     THEN IF ls[i] # <<>> /\ ls[i][1] = Backticks
                          THEN [s EXCEPT !.inside = TRUE, !.cur = <<>>]
                          ELSE s
                     ELSE IF ls[i] = <<Backticks>>
                          THEN [inside |-> FALSE, cur |-> <<>>,
                                blocks |-> Append(s.blocks, Join(s.cur, "\n"))]
                          ELSE [s EXCEPT !.cur = Append(s.cur, ls[i])])
        IN  scan[Len(ls)].blocks)

\* the text content of an element: its text nodes one after the other
TextContent(node) ==
    Bind(all_strings(node), LAMBDA strs :
        LET cat[i \in 0..Len(strs)] == IF i = 0 THEN <<>> ELSE cat[i - 1] \o strs[i]
        IN  cat[Len(strs)])

\* the pre elements of the container whose text is not empty
CodeBlocks ==
    SelectSeq(Descendants(econtainer, FALSE),
              LAMBDA e : /\ e.node.name = "pre"
                         /\ StripChars(TextContent(e.node), {"\n"}) # <<>>)

\* the code elements of the container outside every pre, whose text is not empty
StandaloneCodes ==
    SelectSeq(Descendants(econtainer, FALSE),
              LAMBDA e : /\ e.node.name = "code"
                         /\ ~e.inpre
                         /\ StripChars(TextContent(e.node), {"\n"}) # <<>>)

\* C18: code block text is verbatim: for every pre with non-empty text, the
\* result has a fenced block whose lines are the text of the pre with its
\* newlines kept and only leading and trailing blank lines stripped.
C18_CodeVerbatim ==
    estage = 1 =>
        \A i \in 1..Len(CodeBlocks) :
            \E k \in 1..Len(FencedBlocks(eresult)) :
                FencedBlocks(eresult)[k]
                    = StripChars(TextContent(CodeBlocks[i].node), {"\n"})

\* C19: no double emission: the result has one fenced block for every pre with
\* text and one for every code element outside every pre, and no other: a code
\* element inside a pre, however deep, gets no fence of its own.
C19_CodeOnce ==
    estage = 1 =>
        Len(FencedBlocks(eresult)) = Len(CodeBlocks) + Len(StandaloneCodes)

\* the sum of the word counts of the texts of a sequence
TotalWords(texts) ==
    LET sum[i \in 0..Len(texts)] ==
            IF i = 0 THEN 0 ELSE sum[i - 1] + WordCount(texts[i])
    IN  sum[Len(texts)]

\* the body sections of the records of the output file, in order
RecordBodies == [i \in 1..Len(out_file) |-> out_file[i].body]

\* what extract_content_markdown returned for the pages written, in order
ExtractedBodies ==
    LET ok == SelectSeq(requests_log, Succeeded)
    IN  [i \in 1..Len(ok) |-> ok[i].body_md]

\* the last line printed is the summary, and it reports these totals
DoneLineReports(pages, words) ==
    /\ stdout_log # <<>>
    /\ stdout_log[Len(stdout_log)].line = "done"
    /\ stdout_log[Len(stdout_log)].pages = pages
    /\ stdout_log[Len(stdout_log)].words = words

\* C20 as stated: in every state of the crawl, pages_written is the number of
\* records appended, words_processed is the sum of the word counts of the body
\* sections of those records, every record's source is visited, and the summary
\* reports these totals.
C20_CountersOfRecordBodies ==
    pc \in {"loop", "fetch", "done", "aborted"} =>
        /\ pages_written = Len(out_file)
        /\ words_processed = TotalWords(RecordBodies)
        /\ Range(Sources) \subseteq visited
        /\ pc = "done" => DoneLineReports(Len(out_file), TotalWords(RecordBodies))

\* C20 amended: words_processed is the sum of the word counts of the extracted
\* bodies of the pages written: a page without extractable content adds 0,
\* although the body section of its record reads the placeholder.
C20_CountersOfExtractedBodies ==
    pc \in {"loop", "fetch", "done", "aborted"} =>
        /\ pages_written = Len(out_file)
        /\ Len(ExtractedBodies) = Len(out_file)
        /\ words_processed = TotalWords(ExtractedBodies)
        /\ Range(Sources) \subseteq visited
        /\ pc = "done" => DoneLineReports(Len(out_file), TotalWords(ExtractedBodies))

\* C20 witness: a finished crawl that wrote a page with words and a page
\* without extractable content.
C20_Witness ==
    /\ pc = "done"
    /\ pages_written >= 2
    /\ words_processed > 0
    /\ \E i \in 1..Len(ExtractedBodies) :
           ExtractedBodies[i] = <<>> /\ out_file[i].body = Placeholder

====
